---- MODULE Spec2Model ----
(***************************************************************************)
(* otel-instrumentation-postgres: the interception layer (proxy handler,   *)
(* reserved-connection wrapper, query executor), the event channel (a      *)
(* node EventEmitter singleton) and the telemetry consumer                 *)
(* (PostgresInstrumentation).                                              *)
(*                                                                         *)
(* Text is modelled as a sequence of one-character strings so that the     *)
(* regular expressions of the source are computed, not assumed.            *)
(***************************************************************************)
EXTENDS Integers, Sequences, FiniteSets, TLC

(***************************************************************************)
(* Bounds of the model.                                                    *)
(***************************************************************************)
MaxCalls == 3
MaxQueryCalls == 2
MaxTime == 2
MaxEnables == 2
MaxOthers == 1

(***************************************************************************)
(* Constants of the program.                                               *)
(***************************************************************************)
PG_EVENT_NAME == "db:query"
PG_CONNECTION_EVENT_NAME == "db:connection"
Topics == {PG_EVENT_NAME, PG_CONNECTION_EVENT_NAME}

NONE == [ok |-> TRUE, val |-> "<none>"]

(***************************************************************************)
(* Text helpers: String.prototype.toUpperCase on the letters used and the  *)
(* anchored, case-insensitive keyword regular expression.                  *)
(***************************************************************************)
LowerLetters == <<"a","b","c","d","e","f","g","h","i","j","k","l","m",
                  "n","o","p","q","r","s","t","u","v","w","x","y","z">>
UpperLetters == <<"A","B","C","D","E","F","G","H","I","J","K","L","M",
                  "N","O","P","Q","R","S","T","U","V","W","X","Y","Z">>

ToUpperChar(c) ==
  IF \E i \in 1..26 : LowerLetters[i] = c
    THEN UpperLetters[CHOOSE i \in 1..26 : LowerLetters[i] = c]
    ELSE c

Keywords ==
  << <<"S","E","L","E","C","T">>, <<"I","N","S","E","R","T">>,
     <<"U","P","D","A","T","E">>, <<"D","E","L","E","T","E">>,
     <<"C","R","E","A","T","E">>, <<"A","L","T","E","R">>,
     <<"D","R","O","P">> >>

\* kw (upper case) is a prefix of s, compared case-insensitively
StartsWithCI(s, kw) ==
  /\ Len(s) >= Len(kw)
  /\ \A i \in 1..Len(kw) : ToUpperChar(s[i]) = kw[i]

\* /^(SELECT|INSERT|UPDATE|DELETE|CREATE|ALTER|DROP)/i.test(s)
sqlRegex(s) == \E k \in 1..Len(Keywords) : StartsWithCI(s, Keywords[k])

\* w (upper case) occurs in s at position i, compared case-insensitively
MatchAtCI(s, i, w) ==
  /\ i + Len(w) - 1 <= Len(s)
  /\ \A j \in 1..Len(w) : ToUpperChar(s[i + j - 1]) = w[j]

\* /w/i.test(s)
ContainsCI(s, w) == \E i \in 1..Len(s) : MatchAtCI(s, i, w)

\* a text of n characters c
Repeat(c, n) == [i \in 1..n |-> c]

(***************************************************************************)
(* analyzeQuery and the string functions it uses.                          *)
(***************************************************************************)
\* the characters matched by \s and by \w
Whitespace == {" ", "\n", "\t"}
WordChars ==
  {LowerLetters[i] : i \in 1..26} \cup {UpperLetters[i] : i \in 1..26}
    \cup {"0", "1", "2", "3", "4", "5", "6", "7", "8", "9", "_"}

\* String.prototype.toUpperCase, startsWith and includes
ToUpperCase(s) == [i \in 1..Len(s) |-> ToUpperChar(s[i])]
StartsWith(s, w) == Len(s) >= Len(w) /\ SubSeq(s, 1, Len(w)) = w
Includes(s, w) ==
  \E i \in 1..(Len(s) - Len(w) + 1) : SubSeq(s, i, i + Len(w) - 1) = w

\* s.replace(/--.*$/gm, ""): every "--" is removed with the rest of its line
RECURSIVE StripLineComments(_, _, _)
StripLineComments(s, i, inComment) ==
  IF i > Len(s) THEN <<>>
  ELSE IF inComment
    THEN IF s[i] = "\n" THEN <<"\n">> \o StripLineComments(s, i + 1, FALSE)
                        ELSE StripLineComments(s, i + 1, TRUE)
  ELSE IF s[i] = "-" /\ i < Len(s) /\ s[i + 1] = "-"
    THEN StripLineComments(s, i + 2, TRUE)
  ELSE <<s[i]>> \o StripLineComments(s, i + 1, FALSE)

\* s.replace(/\s+/g, " "): every run of whitespace becomes one space
RECURSIVE CollapseWhitespace(_, _)
CollapseWhitespace(s, i) ==
  IF i > Len(s) THEN <<>>
  ELSE IF s[i] \in Whitespace
    THEN IF i > 1 /\ s[i - 1] \in Whitespace
           THEN CollapseWhitespace(s, i + 1)
           ELSE <<" ">> \o CollapseWhitespace(s, i + 1)
  ELSE <<s[i]>> \o CollapseWhitespace(s, i + 1)

\* String.prototype.trim
RECURSIVE TrimStart(_)
TrimStart(s) ==
  IF s # <<>> /\ s[1] \in Whitespace THEN TrimStart(Tail(s)) ELSE s
RECURSIVE TrimEnd(_)
TrimEnd(s) ==
  IF s # <<>> /\ s[Len(s)] \in Whitespace
    THEN TrimEnd(SubSeq(s, 1, Len(s) - 1)) ELSE s
Trim(s) == TrimEnd(TrimStart(s))

UNKNOWN == <<"U","N","K","N","O","W","N">>
WHERE == <<"W","H","E","R","E">>
JOIN == <<"J","O","I","N">>
ORDER_BY == <<"O","R","D","E","R"," ","B","Y">>
LIMIT == <<"L","I","M","I","T">>
FROM == <<"F","R","O","M">>
INTO == <<"I","N","T","O">>
UPDATE == <<"U","P","D","A","T","E">>

\* the longest run of word characters of s that starts at position i
RECURSIVE WordAt(_, _)
WordAt(s, i) ==
  IF i <= Len(s) /\ s[i] \in WordChars THEN <<s[i]>> \o WordAt(s, i + 1) ELSE <<>>

\* the first position after the whitespace that starts at position i
RECURSIVE SkipWhitespace(_, _)
SkipWhitespace(s, i) ==
  IF i <= Len(s) /\ s[i] \in Whitespace THEN SkipWhitespace(s, i + 1) ELSE i

\* the two quote characters of the table expressions, written by their names
Quotes == {"dquote", "backtick"}

\* the table expression is: kw, whitespace, an optional quote, the group
\* (\w+), an optional quote, case-insensitive.  Where the group starts when
\* the expression matches at position i, 0 when it does not match there
GroupAt(s, k) ==
  IF k < Len(s) /\ s[k] \in Quotes /\ s[k + 1] \in WordChars THEN k + 1
  ELSE IF k <= Len(s) /\ s[k] \in WordChars THEN k
  ELSE 0

GroupStart(s, i, kw) ==
  IF /\ MatchAtCI(s, i, kw)
     /\ i + Len(kw) <= Len(s)
     /\ s[i + Len(kw)] \in Whitespace
    THEN GroupAt(s, SkipWhitespace(s, i + Len(kw)))
    ELSE 0

\* s.match(table expression)?.[1]: the group of the leftmost match, the
\* empty text when there is no match
FirstGroup(s, kw, at) ==
  IF at = {} THEN <<>>
  ELSE WordAt(s, GroupStart(s, CHOOSE i \in at : \A j \in at : i <= j, kw))

MatchGroup(s, kw) ==
  FirstGroup(s, kw, {i \in 1..Len(s) : GroupStart(s, i, kw) # 0})

\* a || b on two match groups
OrElse(a, b) == IF a # <<>> THEN a ELSE b

\* a variant without the UNKNOWN default
Operation_NoDefault(upperSql) ==
  LET ops == {k \in 1..Len(Keywords) : StartsWith(upperSql, Keywords[k])}
  IN IF ops = {} THEN <<>>
     ELSE Keywords[CHOOSE k \in ops : \A j \in ops : k <= j]

\* analyzeQuery, the operation: the first keyword upperSql starts with
FirstKeyword(ops) ==
  IF ops = {} THEN UNKNOWN
  ELSE Keywords[CHOOSE k \in ops : \A j \in ops : k <= j]

Operation(upperSql) ==
  FirstKeyword({k \in 1..Len(Keywords) : StartsWith(upperSql, Keywords[k])})

\* a variant that promotes to high on a join with an order-by alone
Complexity_HighWithoutWhere(hasWhere, hasJoin, hasOrderBy, parameterCount) ==
  IF hasJoin /\ hasOrderBy THEN "high"
  ELSE IF hasJoin \/ hasOrderBy \/ parameterCount > 5 THEN "medium"
  ELSE "low"

\* analyzeQuery, the complexity: low, promoted to medium, promoted to high
Complexity(hasWhere, hasJoin, hasOrderBy, parameterCount) ==
  IF hasJoin /\ hasOrderBy /\ hasWhere THEN "high"
  ELSE IF hasJoin \/ hasOrderBy \/ parameterCount > 5 THEN "medium"
  ELSE "low"

\* analyzeQuery, the returned descriptor; table is the empty text when the
\* descriptor has no table
Descriptor(operation, table, hasWhere, hasJoin, hasOrderBy, hasLimit, parameterCount) ==
  [operation |-> operation,
   table |-> table,
   hasWhere |-> hasWhere,
   hasJoin |-> hasJoin,
   hasOrderBy |-> hasOrderBy,
   hasLimit |-> hasLimit,
   parameterCount |-> parameterCount,
   estimatedComplexity |->
     Complexity(hasWhere, hasJoin, hasOrderBy, parameterCount)]

\* analyzeQuery from cleanSql and upperSql on
Characterize(cleanSql, upperSql, parameterCount) ==
  Descriptor(Operation(upperSql),
             OrElse(MatchGroup(cleanSql, FROM),
                    OrElse(MatchGroup(cleanSql, INTO),
                           MatchGroup(cleanSql, UPDATE))),
             Includes(upperSql, WHERE), Includes(upperSql, JOIN),
             Includes(upperSql, ORDER_BY), Includes(upperSql, LIMIT),
             parameterCount)

CleanSql(sql) ==
  Trim(CollapseWhitespace(StripLineComments(sql, 1, FALSE), 1))

UpperOf(cleanSql, parameterCount) ==
  Characterize(cleanSql, ToUpperCase(cleanSql), parameterCount)

analyzeQuery(sql) ==
  UpperOf(CleanSql(sql), Cardinality({i \in 1..Len(sql) : sql[i] = "?"}))

\* getQueryType, the cases of the switch
QueryTypeCase(op) ==
  IF op = Keywords[1] THEN "read"
  ELSE IF op \in {Keywords[2], Keywords[3], Keywords[4]} THEN "write"
  ELSE IF op \in {Keywords[5], Keywords[6], Keywords[7]} THEN "schema"
  ELSE "unknown"

\* a variant that compares the operation as it is written
getQueryType_CaseSensitive(operation) ==
  IF operation = Keywords[1] THEN "read"
  ELSE IF operation \in {Keywords[2], Keywords[3], Keywords[4]} THEN "write"
  ELSE IF operation \in {Keywords[5], Keywords[6], Keywords[7]} THEN "schema"
  ELSE "unknown"

\* getQueryType: a switch on operation.toUpperCase()
getQueryType(operation) == QueryTypeCase(ToUpperCase(operation))

(***************************************************************************)
(* Statements given to analyzeQuery and operations given to getQueryType.  *)
(***************************************************************************)
\* "select * from u" followed by any of " join o", " where x", " order by y",
\* " limit 1" and by a space and k question marks
SelectFrom == <<"s","e","l","e","c","t"," ","*"," ","f","r","o","m"," ","u">>
JoinPart == <<" ","j","o","i","n"," ","o">>
WherePart == <<" ","w","h","e","r","e"," ","x">>
OrderPart == <<" ","o","r","d","e","r"," ","b","y"," ","y">>
LimitPart == <<" ","l","i","m","i","t"," ","1">>
MarkCounts == {0, 1, 2, 5, 6}
ComposedStatements ==
  {SelectFrom \o (IF j THEN JoinPart ELSE <<>>) \o (IF w THEN WherePart ELSE <<>>)
     \o (IF o THEN OrderPart ELSE <<>>) \o (IF l THEN LimitPart ELSE <<>>)
     \o (IF k = 0 THEN <<>> ELSE <<" ">> \o Repeat("?", k)) :
     j \in BOOLEAN, w \in BOOLEAN, o \in BOOLEAN, l \in BOOLEAN, k \in MarkCounts}

\* "", "SELECTED 1", "drops t", "EXECUTE p", "-- c\nDROP t", "INSERT INTO t",
\* update "t" set a, "delete  from t", "Create table t", "alter table t"
SpecialStatements ==
  { <<>>,
    <<"S","E","L","E","C","T","E","D"," ","1">>,
    <<"d","r","o","p","s"," ","t">>,
    <<"E","X","E","C","U","T","E"," ","p">>,
    <<"-","-"," ","c","\n","D","R","O","P"," ","t">>,
    <<"I","N","S","E","R","T"," ","I","N","T","O"," ","t">>,
    <<"u","p","d","a","t","e"," ","dquote","t","dquote"," ","s","e","t"," ","a">>,
    <<"d","e","l","e","t","e"," "," ","f","r","o","m"," ","t">>,
    <<"C","r","e","a","t","e"," ","t","a","b","l","e"," ","t">>,
    <<"a","l","t","e","r"," ","t","a","b","l","e"," ","t">> }

Statements == ComposedStatements \cup SpecialStatements

\* the operations analyzeQuery returns, the same in lower case, "Select",
\* "MERGE" and the empty text
Operations ==
  {Keywords[k] : k \in 1..Len(Keywords)} \cup {UNKNOWN}
    \cup {<<"s","e","l","e","c","t">>, <<"i","n","s","e","r","t">>,
          <<"u","p","d","a","t","e">>, <<"d","e","l","e","t","e">>,
          <<"c","r","e","a","t","e">>, <<"a","l","t","e","r">>,
          <<"d","r","o","p">>, <<"S","e","l","e","c","t">>,
          <<"M","E","R","G","E">>, <<>>}

(***************************************************************************)
(* First arguments of an invocation: a JavaScript value with its type.     *)
(***************************************************************************)
ArgSelect == [type |-> "string", text |-> <<"s","e","l","e","c","t"," ","1">>]
ArgNotSql == [type |-> "string", text |-> <<"p","i","n","g">>]
ArgEmpty == [type |-> "string", text |-> <<>>]
ArgNumber == [type |-> "number", text |-> <<"1","2","3">>]
ArgUndefined == [type |-> "undefined", text |-> <<>>]

FirstArgs == {ArgSelect, ArgNotSql, ArgEmpty, ArgNumber, ArgUndefined}

\* "  select 1" and "-- c\nselect 1"
ArgLeadingSpace ==
  [type |-> "string", text |-> <<" "," ","s","e","l","e","c","t"," ","1">>]
ArgLeadingComment ==
  [type |-> "string",
   text |-> <<"-","-"," ","c","\n","s","e","l","e","c","t"," ","1">>]
DetectArgs == {ArgSelect, ArgLeadingSpace, ArgLeadingComment, ArgNotSql}

\* JavaScript truthiness of a first argument (123 is a non-zero number)
Truthy(a) ==
  CASE a.type = "string" -> Len(a.text) > 0
    [] a.type = "number" -> TRUE
    [] OTHER -> FALSE

\* args[0] && typeof args[0] === "string" && sqlRegex.test(args[0])
LooksLikeSql(a) == Truthy(a) /\ a.type = "string" /\ sqlRegex(a.text)

\* query parameters (args[1]): "abc", "myPassword", 42, a text of 101
\* characters, and "token" followed by 96 characters (101 in all)
ParamShort == [type |-> "string", text |-> <<"a","b","c">>]
ParamPassword ==
  [type |-> "string", text |-> <<"m","y","P","a","s","s","w","o","r","d">>]
ParamNumber == [type |-> "number", text |-> <<"4","2">>]
ParamLong == [type |-> "string", text |-> Repeat("x", 101)]
ParamLongToken ==
  [type |-> "string", text |-> <<"t","o","k","e","n">> \o Repeat("x", 96)]
ParamValues == {ParamShort, ParamPassword, ParamNumber, ParamLong, ParamLongToken}
ParamLists == {<<v>> : v \in ParamValues} \cup {<<ParamShort, ParamPassword>>}

(***************************************************************************)
(* JavaScript values that travel through the pipeline.  "rows" is an array *)
(* (truthy), "undefined" is the absent value; ErrDb is the Error raised by *)
(* the driver, ErrHook by a user hook of the consumer, ErrListener by a    *)
(* subscriber that is not the consumer.                                    *)
(***************************************************************************)
UnderlyingResults == {"rows", "undefined"}
UnderlyingErrors == {"ErrDb"}
JsTruthy(v) == v \notin {"undefined", "null"}

\* values a driver call can reject with: an Error, a non-empty string, null
\* and undefined
FailureValues == {"ErrDb", "boom", "null", "undefined"}
\* error instanceof Error
IsError(v) == v \in {"ErrDb", "ErrHook", "ErrListener", "TypeError"}

Resolved(v) == [ok |-> TRUE, val |-> v]
Rejected(e) == [ok |-> FALSE, val |-> e]
QueryOutcomes ==
  {Resolved(v) : v \in UnderlyingResults} \cup {Rejected(e) : e \in UnderlyingErrors}

\* Math.random().toString(36).substring(2, 15): no uniqueness check, and the
\* empty string when Math.random() returns 0
ConnIds == {"", "k7", "m2"}
\* identities of the objects the driver's reserve() resolves to
RawHandles == {"r1", "r2"}

\* the points of handleQueryEvent at which user code or an instrument throws
FaultPoints == {"none", "beforeSpan", "parameterSanitizer", "recordMetrics",
                "responseHook", "afterSpan"}
\* the faults raised by one of the three hooks
HookFaults == {"beforeSpan", "responseHook", "afterSpan"}

\* PostgresInstrumentationConfig: hooks says that beforeSpan, afterSpan and
\* responseHook are configured; a parameterSanitizer is configured when it is
\* the fault point, otherwise the default sanitizer is used; enableHistogram
\* is config.enableHistogram ?? true
Configs ==
  {x \in [fault : FaultPoints, hooks : BOOLEAN, collectQueryParameters : BOOLEAN,
          enableHistogram : BOOLEAN] :
     /\ x.fault \in HookFaults => x.hooks
     /\ x.fault = "parameterSanitizer" => x.collectQueryParameters}

VARIABLES
  now,            \* Date.now()
  listeners,      \* the EventEmitter singleton: topic -> listeners in on() order
  closures,       \* number of listener closures created so far (their identity)
  enableCalls,    \* number of enable() calls made
  cfg,            \* PostgresInstrumentationConfig: where a fault is raised
  inst,           \* the PostgresInstrumentation instance
  connectionIds,  \* createOTELEmitter's Map<reserved, connectionId>
  reservations,   \* wrapped sub-handles handed to the application
  calls,          \* invocations made through wrapped handles
  published,      \* every emit() made on the channel, in order
  globalEmitter,  \* global[GLOBAL_KEY] and the emitters created and returned
  lastReturn      \* the value returned by the last direct call of a function

vars == <<now, listeners, closures, enableCalls, cfg, inst, connectionIds,
          reservations, calls, published, globalEmitter, lastReturn>>

\* a variant that never stores the emitter it creates
getDbEventEmitter_NeverStored(g) ==
  [slot |-> g.slot, created |-> g.created + 1,
   returned |-> g.returned \cup {g.created + 1}]

\* getDbEventEmitter: the emitter in global[GLOBAL_KEY] if there is one,
\* otherwise a newly created emitter that is stored there
getDbEventEmitter(g) ==
  IF g.slot # 0
    THEN [g EXCEPT !.returned = @ \cup {g.slot}]
    ELSE [slot |-> g.created + 1, created |-> g.created + 1,
          returned |-> g.returned \cup {g.created + 1}]

\* no direct call made yet
NoReturn == [fn |-> "none", arg |-> <<>>, val |-> <<>>]

(***************************************************************************)
(* Telemetry consumer (PostgresInstrumentation).                           *)
(***************************************************************************)
NoThrow(s) == [st |-> s, thrown |-> FALSE, err |-> "undefined"]
Throw(s, e) == [st |-> s, thrown |-> TRUE, err |-> e]

\* initializeMetrics: creates the counters and histograms
initializeMetrics(s) == [s EXCEPT !.metrics = TRUE]

\* this.queryDurationHistogram is set: initializeMetrics creates it together
\* with the counters, and only if this.enableHistogram
HasQueryDurationHistogram(s) == s.metrics /\ cfg.enableHistogram

\* recordMetrics: everything inside one try/catch
recordMetrics(s, ev) ==
  LET s1 == IF ~HasQueryDurationHistogram(s) /\ cfg.enableHistogram
              THEN initializeMetrics(s)
              ELSE s
  IN IF cfg.fault = "recordMetrics"
       THEN s1
       ELSE [s1 EXCEPT !.queryDurationHistogram =
                         IF HasQueryDurationHistogram(s1) THEN @ + 1 ELSE @,
                       !.queryCounter = IF s1.metrics THEN @ + 1 ELSE @,
                       !.errorCounter =
                         IF JsTruthy(ev.error) /\ s1.metrics THEN @ + 1 ELSE @]

SetLast(spans, field, v) == [spans EXCEPT ![Len(spans)][field] = v]

\* getErrorType
getErrorType(error) ==
  IF IsError(error)
    THEN (IF error = "TypeError" THEN "TypeError" ELSE "Error")
    ELSE "_OTHER"

SensitiveWords ==
  << <<"P","A","S","S","W","O","R","D">>, <<"T","O","K","E","N">>,
     <<"S","E","C","R","E","T">> >>

\* defaultParameterSanitizer: the length test comes first
defaultParameterSanitizer(param) ==
  IF param.type = "string" /\ Len(param.text) > 100
    THEN SubSeq(param.text, 1, 100) \o <<".", ".", ".">>
  ELSE IF /\ param.type = "string"
          /\ \E k \in 1..Len(SensitiveWords) : ContainsCI(param.text, SensitiveWords[k])
    THEN <<"[","R","E","D","A","C","T","E","D","]">>
  ELSE param.text

\* tracer.startSpan(queryAnalysis.operation, attributes)
NewSpan(ev, queryAnalysis) ==
  [call |-> ev.call, name |-> queryAnalysis.operation,
   queryType |-> getQueryType(queryAnalysis.operation),
   analysis |-> queryAnalysis,
   status |-> "UNSET", ended |-> FALSE, errorType |-> "",
   params |-> <<>>, trace |-> <<>>]

\* handleQueryEvent: analyzeQuery(event.sql), then tracer.startSpan
StartSpan(s, ev) ==
  [s EXCEPT !.spans = Append(@, NewSpan(ev, analyzeQuery(ev.sql.text)))]

\* what is done to the span, in order
Mark(s, what) ==
  [s EXCEPT !.spans = SetLast(@, "trace", Append(s.spans[Len(s.spans)].trace, what))]

\* addQueryParameters with the default sanitizer
addQueryParameters(s, params) ==
  [s EXCEPT !.spans = SetLast(@, "params",
                        [i \in 1..Len(params) |-> defaultParameterSanitizer(params[i])])]

\* a variant in which a failing instrument is not caught by recordMetrics
handleQueryEvent_MetricsFaultEscapes(s, ev) ==
  IF ev.sql.type # "string" THEN Throw(s, "TypeError")
  ELSE IF cfg.fault = "recordMetrics"
    THEN Throw(initializeMetrics(StartSpan(s, ev)), "ErrMetrics")
  ELSE NoThrow(Mark([StartSpan(s, ev) EXCEPT
                       !.spans = SetLast(SetLast(@, "status", "OK"), "ended", TRUE)],
                    "end"))

\* the hook named what is called when the hooks are configured and the
\* event is one it applies to
CallHook(s, applies, what) == IF cfg.hooks /\ applies THEN Mark(s, what) ELSE s

\* a variant that does not look at the collectQueryParameters flag
WithParams_IgnoresFlag(ev) == Len(ev.params) > 0

\* if (this.collectQueryParameters && event.params.length > 0)
WithParams(ev) == cfg.collectQueryParameters /\ Len(ev.params) > 0

\* if (!event.error && event.result), the condition of the responseHook
WithResponse(ev) == ~JsTruthy(ev.error) /\ JsTruthy(ev.result)

CollectParameters(s, ev) ==
  IF WithParams(ev) THEN addQueryParameters(s, ev.params) ELSE s

\* span.setStatus, and the error-type attribute of a failure
SetStatus(s, ev) ==
  Mark([s EXCEPT !.spans =
          IF JsTruthy(ev.error)
            THEN SetLast(SetLast(@, "status", "ERROR"),
                         "errorType", getErrorType(ev.error))
            ELSE SetLast(@, "status", "OK")],
       "setStatus")

\* span.end
EndSpan(s) == Mark([s EXCEPT !.spans = SetLast(@, "ended", TRUE)], "end")

\* handleQueryEvent: no try/catch of its own.  analyzeQuery calls
\* sql.replace, a TypeError when sql is not a string
handleQueryEvent(s, ev) ==
  IF ev.sql.type # "string" THEN Throw(s, "TypeError")
  ELSE
  LET s2 == CallHook(StartSpan(s, ev), TRUE, "beforeSpan")
  IN IF \/ cfg.fault = "beforeSpan"
        \/ cfg.fault = "parameterSanitizer" /\ WithParams(ev)
       THEN Throw(s2, "ErrHook")
     ELSE
     LET s7 == CallHook(SetStatus(recordMetrics(CollectParameters(s2, ev), ev), ev),
                        WithResponse(ev), "responseHook")
     IN IF cfg.fault = "responseHook" /\ WithResponse(ev) /\ cfg.hooks
          THEN Throw(s7, "ErrHook")
        ELSE
        LET s8 == CallHook(s7, TRUE, "afterSpan")
        IN IF cfg.fault = "afterSpan" THEN Throw(s8, "ErrHook")
           ELSE NoThrow(EndSpan(s8))

MapRemove(m, k) == [x \in DOMAIN m \ {k} |-> m[x]]
MapSet(m, k, v) == [x \in DOMAIN m \cup {k} |-> IF x = k THEN v ELSE m[x]]

\* durationMs / 1000, kept as the fraction it is
Seconds(durationMs) == <<durationMs, 1000>>

\* a variant that records a duration for a disconnect without a start time
handleConnectionEvent_RecordsUnmatched(s, ev) ==
  LET s1 == IF s.metrics THEN [s EXCEPT !.connectionCounter = @ + 1] ELSE s
      known == ev.connectionId \in DOMAIN s1.connectionStartTimes
  IN IF ev.type = "connect"
       THEN [s1 EXCEPT !.connectionStartTimes = MapSet(@, ev.connectionId, ev.timestamp)]
     ELSE IF ev.type = "disconnect" /\ s1.metrics
       THEN [s1 EXCEPT
               !.connectionDurationHistogram =
                   Append(@, Seconds(ev.timestamp -
                               (IF known THEN s1.connectionStartTimes[ev.connectionId]
                                         ELSE 0))),
               !.connectionStartTimes = MapRemove(@, ev.connectionId)]
     ELSE s1

\* handleConnectionEvent
handleConnectionEvent(s, ev) ==
  LET s1 == IF s.metrics THEN [s EXCEPT !.connectionCounter = @ + 1] ELSE s
  IN IF ev.type = "connect"
       THEN [s1 EXCEPT !.connectionStartTimes = MapSet(@, ev.connectionId, ev.timestamp)]
     ELSE IF /\ ev.type = "disconnect"
             /\ ev.connectionId \in DOMAIN s1.connectionStartTimes
             /\ s1.connectionStartTimes[ev.connectionId] # 0
             /\ s1.metrics
       THEN [s1 EXCEPT
               !.connectionDurationHistogram =
                   Append(@, Seconds(ev.timestamp -
                                       s1.connectionStartTimes[ev.connectionId])),
               !.connectionStartTimes = MapRemove(@, ev.connectionId)]
     ELSE s1

(***************************************************************************)
(* Event channel: node's EventEmitter.  emit calls the listeners of the    *)
(* topic synchronously in registration order; an exception thrown by a     *)
(* listener leaves emit at once and the later listeners are not called.    *)
(***************************************************************************)
CallListener(l, s, ev) ==
  IF l.owner = "inst"
    THEN IF ev.topic = PG_EVENT_NAME
           THEN handleQueryEvent(s, ev)
           ELSE NoThrow(handleConnectionEvent(s, ev))
    ELSE IF l.throws THEN Throw(s, "ErrListener") ELSE NoThrow(s)

\* got is the number of listeners that were called
RECURSIVE EmitFrom(_, _, _, _)

\* listener i returned or threw r
AfterListener(ls, i, ev, r) ==
  IF r.thrown
    THEN [st |-> r.st, thrown |-> TRUE, err |-> r.err, got |-> i]
    ELSE EmitFrom(ls, i + 1, r.st, ev)

EmitFrom(ls, i, s, ev) ==
  IF i > Len(ls)
    THEN [st |-> s, thrown |-> FALSE, err |-> "undefined", got |-> i - 1]
  ELSE AfterListener(ls, i, ev, CallListener(ls[i], s, ev))

\* getDbEventEmitter(logger).emit(topic, ev)
emit(s, ev) == EmitFrom(listeners[ev.topic], 1, s, ev)

\* the record of one emit: the event, the number of listeners of its topic at
\* that time (subs), how many of them were called (got) and whether emit threw
Sent(ev, r) ==
  [x \in DOMAIN ev \cup {"subs", "got", "threw"} |->
     CASE x = "subs" -> Len(listeners[ev.topic])
       [] x = "got" -> r.got
       [] x = "threw" -> r.thrown
       [] OTHER -> ev[x]]

\* EventEmitter.off(topic, fn): removes the listener with that identity
RemoveListener(ls, id) == SelectSeq(ls, LAMBDA l : l.id # id)

(***************************************************************************)
(* Initial state: one wrapped client, one constructed consumer, nothing    *)
(* subscribed, no call made.                                               *)
(***************************************************************************)
Init ==
  /\ now = 1
  /\ listeners = [t \in Topics |-> <<>>]
  /\ closures = 0
  /\ enableCalls = 0
  /\ cfg \in Configs
  /\ inst = [listener |-> 0, metrics |-> FALSE, spans |-> <<>>,
             queryDurationHistogram |-> 0, queryCounter |-> 0,
             errorCounter |-> 0, connectionCounter |-> 0,
             connectionDurationHistogram |-> <<>>,
             connectionStartTimes |-> <<>>]
  /\ connectionIds = <<>>
  /\ reservations = <<>>
  /\ calls = <<>>
  /\ published = <<>>
  /\ globalEmitter = [slot |-> 0, created |-> 0, returned |-> {}]
  /\ lastReturn = NoReturn

\* the clock advances
Tick ==
  /\ now < MaxTime
  /\ now' = now + 1
  /\ UNCHANGED <<listeners, closures, enableCalls, cfg, inst, connectionIds,
                 reservations, calls, published, globalEmitter,
                 lastReturn>>

\* the system clock is set back: Date.now() is the wall clock, and a later
\* reading can be smaller than an earlier one
ClockStepBack ==
  /\ now' \in 1..(now - 1)
  /\ UNCHANGED <<listeners, closures, enableCalls, cfg, inst, connectionIds,
                 reservations, calls, published, globalEmitter, lastReturn>>

\* removeEventListeners
removeEventListeners(ls, s) ==
  IF s.listener # 0
    THEN [ls EXCEPT ![PG_EVENT_NAME] = RemoveListener(@, s.listener)]
    ELSE ls

\* setupEventListeners, as called by enable(), on instance s when n listener
\* closures exist: the new query listener is closure n + 1, the new anonymous
\* connection listener closure n + 2
setupEventListeners(ls, s, n) ==
  LET ls1 == removeEventListeners(ls, s)
  IN [ls1 EXCEPT
        ![PG_EVENT_NAME] =
            Append(@, [owner |-> "inst", id |-> n + 1, throws |-> FALSE]),
        ![PG_CONNECTION_EVENT_NAME] =
            Append(@, [owner |-> "inst", id |-> n + 2, throws |-> FALSE])]

\* enable()
Enable ==
  /\ enableCalls < MaxEnables
  /\ enableCalls' = enableCalls + 1
  /\ listeners' = setupEventListeners(listeners, inst, closures)
  /\ inst' = [inst EXCEPT !.listener = closures + 1]
  /\ closures' = closures + 2
  /\ globalEmitter' = getDbEventEmitter(globalEmitter)
  /\ UNCHANGED <<now, cfg, connectionIds, reservations, calls, published, lastReturn>>

\* disable()
Disable ==
  /\ listeners' = removeEventListeners(listeners, inst)
  /\ inst' = [inst EXCEPT !.listener = 0]
  /\ globalEmitter' = IF inst.listener # 0 THEN getDbEventEmitter(globalEmitter)
                                           ELSE globalEmitter
  /\ UNCHANGED <<now, closures, enableCalls, cfg, connectionIds, reservations,
                 calls, published, lastReturn>>

OtherCount ==
  Cardinality({<<t, i>> \in Topics \X (1..(2 * MaxEnables + MaxOthers)) :
                 i <= Len(listeners[t]) /\ listeners[t][i].owner = "other"})

\* another subscriber attaches to the channel: EventEmitter.on(topic, fn)
SubscribeOther(t, throws) ==
  /\ OtherCount < MaxOthers
  /\ listeners' = [listeners EXCEPT
                     ![t] = Append(@, [owner |-> "other", id |-> closures + 1,
                                       throws |-> throws])]
  /\ closures' = closures + 1
  /\ globalEmitter' = getDbEventEmitter(globalEmitter)
  /\ UNCHANGED <<now, enableCalls, cfg, inst, connectionIds, reservations,
                 calls, published, lastReturn>>

(***************************************************************************)
(* Interception layer.  A call record is one invocation made through a     *)
(* wrapped handle: h = 0 is the wrapped client, h = k > 0 the k-th wrapped *)
(* reserved sub-handle; via is "apply" (the handle called as a function)   *)
(* or the name of the method called; kind is the path the wrapper took.    *)
(***************************************************************************)
TopMethods == {"query", "end"}
\* method names that both wrappers can be asked for
InvokeMethods == {"end", "constructor"}
SubMethods == {"query"}

Pending(c) == c \in 1..Len(calls) /\ calls[c].st = "pending"

\* a variant in which the caller has its value as soon as the call is made
NewCall_AlreadyReturned(h, via, arg, kind) ==
  [h |-> h, via |-> via, arg |-> arg, params |-> <<>>, kind |-> kind,
   start |-> now, st |-> "pending", und |-> NONE, out |-> Resolved("rows"),
   overlap |-> \E c \in 1..Len(calls) : Pending(c)]

\* overlap records whether another invocation was still in flight when this
\* one was made (the caller did not await it)
NewCall(h, via, arg, kind) ==
  [h |-> h, via |-> via, arg |-> arg, params |-> <<>>, kind |-> kind,
   start |-> now, st |-> "pending", und |-> NONE, out |-> NONE,
   overlap |-> \E c \in 1..Len(calls) : Pending(c)]

\* a variant that measures every duration from the start of the first invocation
QueryEvent_SharedStart(c, result, error) ==
  [topic |-> PG_EVENT_NAME, sql |-> calls[c].arg, params |-> calls[c].params,
   result |-> result,
   error |-> error, durationMs |-> now - calls[1].start, call |-> c]

QueryEvent(c, result, error) ==
  [topic |-> PG_EVENT_NAME, sql |-> calls[c].arg, params |-> calls[c].params,
   result |-> result,
   error |-> error, durationMs |-> now - calls[c].start, call |-> c]

ConnectionEvent(type, connectionId, c, k) ==
  [topic |-> PG_CONNECTION_EVENT_NAME, type |-> type, timestamp |-> now,
   connectionId |-> connectionId, call |-> c, res |-> k]

\* createProxyHandler, get trap: a function-valued property other than
\* reserve is called with first argument arg
CallMethod(prop, arg) ==
  /\ Len(calls) < MaxCalls
  /\ calls' = Append(calls, NewCall(0, prop, arg,
                       IF LooksLikeSql(arg) THEN "query" ELSE "pass"))
  /\ UNCHANGED <<now, listeners, closures, enableCalls, cfg, inst,
                 connectionIds, reservations, published, globalEmitter,
                 lastReturn>>

\* createProxyHandler, get trap: a method is called with a statement and an
\* array of parameters
CallMethodParams(prop, arg, params) ==
  /\ Len(calls) < MaxCalls
  /\ calls' = Append(calls,
                [NewCall(0, prop, arg, IF LooksLikeSql(arg) THEN "query" ELSE "pass")
                   EXCEPT !.params = params])
  /\ UNCHANGED <<now, listeners, closures, enableCalls, cfg, inst,
                 connectionIds, reservations, published, globalEmitter,
                 lastReturn>>

\* analyzeQuery(sql) called directly
CallAnalyzeQuery(sql) ==
  /\ lastReturn' = [fn |-> "analyzeQuery", arg |-> sql, val |-> analyzeQuery(sql)]
  /\ UNCHANGED <<now, listeners, closures, enableCalls, cfg, inst, connectionIds,
                 reservations, calls, published, globalEmitter>>

\* instrumentation.getQueryType(operation) called directly
CallGetQueryType(operation) ==
  /\ lastReturn' = [fn |-> "getQueryType", arg |-> operation,
                    val |-> getQueryType(operation)]
  /\ UNCHANGED <<now, listeners, closures, enableCalls, cfg, inst, connectionIds,
                 reservations, calls, published, globalEmitter>>

\* onMeterInitialized: a protected method that the instrumentation framework
\* or a subclass may call; nothing in the package calls it
OnMeterInitialized ==
  /\ ~inst.metrics
  /\ inst' = initializeMetrics(inst)
  /\ UNCHANGED <<now, listeners, closures, enableCalls, cfg, connectionIds,
                 reservations, calls, published, globalEmitter, lastReturn>>

\* the non-function properties of the driver's objects and their values: the
\* value of property prop of handle h (0 the client, k the k-th reserved handle)
Properties == {"options", "count"}
UnderlyingProperty(h, prop) == <<"value", h, prop>>

\* a variant whose sub-handles answer with the client's property
GetProperty_FromClient(h, prop) == UnderlyingProperty(0, prop)

\* get trap of both wrappers, typeof value is not function: return value
GetProperty(h, prop) == UnderlyingProperty(h, prop)

\* a non-function property is read on the wrapped client (h = 0) or on the
\* h-th wrapped sub-handle
ReadProperty(h, prop) ==
  /\ h = 0 \/ (h \in 1..Len(reservations) /\ reservations[h].handed)
  /\ lastReturn' = [fn |-> "get", arg |-> <<h, prop>>, val |-> GetProperty(h, prop)]
  /\ UNCHANGED <<now, listeners, closures, enableCalls, cfg, inst, connectionIds,
                 reservations, calls, published, globalEmitter>>

\* createProxyHandler, apply trap: the wrapped client is called as a function
CallApply(arg) ==
  /\ Len(calls) < MaxCalls
  /\ calls' = Append(calls, NewCall(0, "apply", arg, "query"))
  /\ UNCHANGED <<now, listeners, closures, enableCalls, cfg, inst,
                 connectionIds, reservations, published, globalEmitter,
                 lastReturn>>

\* createProxyHandler, get trap for reserve: the driver's reserve is invoked
CallReserve ==
  /\ Len(calls) < MaxCalls
  /\ calls' = Append(calls, NewCall(0, "reserve", ArgUndefined, "reserve"))
  /\ UNCHANGED <<now, listeners, closures, enableCalls, cfg, inst,
                 connectionIds, reservations, published, globalEmitter,
                 lastReturn>>

\* createEventEmittingReservedConnection, get trap: a method other than
\* release is called on the k-th wrapped sub-handle
SubCallMethod(k, prop, arg) ==
  /\ Len(calls) < MaxCalls
  /\ k \in 1..Len(reservations)
  /\ reservations[k].handed
  /\ calls' = Append(calls, NewCall(k, prop, arg,
                       IF prop # "constructor" /\ LooksLikeSql(arg)
                         THEN "query" ELSE "pass"))
  /\ UNCHANGED <<now, listeners, closures, enableCalls, cfg, inst,
                 connectionIds, reservations, published, globalEmitter,
                 lastReturn>>

\* createEventEmittingReservedConnection, apply trap: the wrapped sub-handle
\* is called as a function
SubCallApply(k, arg) ==
  /\ Len(calls) < MaxCalls
  /\ k \in 1..Len(reservations)
  /\ reservations[k].handed
  /\ calls' = Append(calls, NewCall(k, "apply", arg,
                       IF LooksLikeSql(arg) THEN "query" ELSE "pass"))
  /\ UNCHANGED <<now, listeners, closures, enableCalls, cfg, inst,
                 connectionIds, reservations, published, globalEmitter,
                 lastReturn>>

\* release: the emit of the disconnect event ev returned or threw r
DisconnectEmitted(k, nc, ev, r) ==
  /\ published' = Append(published, Sent(ev, r))
  /\ inst' = r.st
  /\ IF r.thrown
       THEN /\ calls' = Append(calls, [nc EXCEPT !.st = "thrown",
                                                 !.out = Rejected(r.err)])
            /\ UNCHANGED connectionIds
       ELSE /\ calls' = Append(calls, nc)
            /\ connectionIds' = MapRemove(connectionIds, reservations[k].raw)

\* createEventEmittingReservedConnection, get trap for release: the
\* disconnect event is emitted and the map entry deleted synchronously, then
\* the driver's release is invoked; an exception of emit leaves the wrapper
\* before the delete and before the driver's release
CallRelease(k) ==
  /\ Len(calls) < MaxCalls
  /\ k \in 1..Len(reservations)
  /\ reservations[k].handed
  /\ IF reservations[k].cid # ""
       THEN DisconnectEmitted(
              k, NewCall(k, "release", ArgUndefined, "pass"),
              ConnectionEvent("disconnect", reservations[k].cid, Len(calls) + 1, k),
              emit(inst, ConnectionEvent("disconnect", reservations[k].cid,
                                         Len(calls) + 1, k)))
       ELSE /\ calls' = Append(calls, NewCall(k, "release", ArgUndefined, "pass"))
            /\ UNCHANGED <<published, inst, connectionIds>>
  /\ globalEmitter' = IF reservations[k].cid # "" THEN getDbEventEmitter(globalEmitter)
                                                 ELSE globalEmitter
  /\ UNCHANGED <<now, listeners, closures, enableCalls, cfg, reservations, lastReturn>>

\* a variant that publishes no event on the failure path
emitAndRunQuery_NoFailureEvent(c, o) ==
  IF o.ok
    THEN LET ev1 == QueryEvent(c, o.val, "undefined")
             r1 == emit(inst, ev1)
             ev2 == QueryEvent(c, "undefined", r1.err)
             r2 == emit(r1.st, ev2)
         IN IF ~r1.thrown
              THEN [evs |-> <<Sent(ev1, r1)>>, st |-> r1.st, out |-> Resolved(o.val)]
              ELSE [evs |-> <<Sent(ev1, r1), Sent(ev2, r2)>>, st |-> r2.st,
                    out |-> Rejected(IF r2.thrown THEN r2.err ELSE r1.err)]
    ELSE [evs |-> <<>>, st |-> inst, out |-> Rejected(o.val)]

\* the catch block: the emit of the failure event ev2 returned or threw r2;
\* error is what the catch block rethrows when it did not throw
Caught(evs, ev2, r2, error) ==
  [evs |-> Append(evs, Sent(ev2, r2)), st |-> r2.st,
   out |-> Rejected(IF r2.thrown THEN r2.err ELSE error)]

\* the catch block entered with error after the events evs, consumer state s
Catch(c, evs, s, error) ==
  Caught(evs, QueryEvent(c, "undefined", error),
         emit(s, QueryEvent(c, "undefined", error)), error)

\* the try block: the emit of the result event ev1 returned or threw r1
Tried(c, o, ev1, r1) ==
  IF ~r1.thrown
    THEN [evs |-> <<Sent(ev1, r1)>>, st |-> r1.st, out |-> Resolved(o.val)]
    ELSE Catch(c, <<Sent(ev1, r1)>>, r1.st, r1.err)

\* emitAndRunQuery after the await: the underlying call settled with o
emitAndRunQuery(c, o) ==
  IF o.ok
    THEN Tried(c, o, QueryEvent(c, o.val, "undefined"),
               emit(inst, QueryEvent(c, o.val, "undefined")))
    ELSE Catch(c, <<>>, inst, o.val)

\* emitAndRunQuery returned or threw r
Settled(c, o, r) ==
  /\ published' = published \o r.evs
  /\ inst' = r.st
  /\ calls' = [calls EXCEPT ![c].st = "settled", ![c].und = o, ![c].out = r.out]

\* the underlying call of a detected query settles
SettleQuery(c, o) ==
  /\ Pending(c)
  /\ calls[c].kind = "query"
  /\ Settled(c, o, emitAndRunQuery(c, o))
  /\ globalEmitter' = getDbEventEmitter(globalEmitter)
  /\ UNCHANGED <<now, listeners, closures, enableCalls, cfg, connectionIds,
                 reservations, lastReturn>>

\* a variant that publishes the Disconnect when the driver's release completes
SettlePass_DisconnectOnCompletion(c, o) ==
  /\ Pending(c)
  /\ calls[c].kind = "pass"
  /\ calls' = [calls EXCEPT ![c].st = "settled", ![c].und = o, ![c].out = o]
  /\ published' =
       IF calls[c].via = "release"
         THEN Append(published,
                ConnectionEvent("disconnect", reservations[calls[c].h].cid, c, calls[c].h))
         ELSE published
  /\ UNCHANGED <<now, listeners, closures, enableCalls, cfg, inst,
                 connectionIds, reservations, globalEmitter,
                 lastReturn>>

\* the underlying call of a passed-through invocation settles: the caller
\* holds the driver's own promise
SettlePass(c, o) ==
  /\ Pending(c)
  /\ calls[c].kind = "pass"
  /\ calls' = [calls EXCEPT ![c].st = "settled", ![c].und = o, ![c].out = o]
  /\ UNCHANGED <<now, listeners, closures, enableCalls, cfg, inst,
                 connectionIds, reservations, published, globalEmitter,
                 lastReturn>>

\* a variant that generates and records an identifier before the await
SettleReserveFail_RecordsId(c, e) ==
  /\ Pending(c)
  /\ calls[c].kind = "reserve"
  /\ calls' = [calls EXCEPT ![c].st = "settled", ![c].und = Rejected(e),
                            ![c].out = Rejected(e)]
  /\ connectionIds' = MapSet(connectionIds, "undefined", "k7")
  /\ UNCHANGED <<now, listeners, closures, enableCalls, cfg, inst,
                 reservations, published, globalEmitter, lastReturn>>

\* the driver's reserve rejects: the async wrapper rejects with the same error
SettleReserveFail(c, e) ==
  /\ Pending(c)
  /\ calls[c].kind = "reserve"
  /\ calls' = [calls EXCEPT ![c].st = "settled", ![c].und = Rejected(e),
                            ![c].out = Rejected(e)]
  /\ UNCHANGED <<now, listeners, closures, enableCalls, cfg, inst,
                 connectionIds, reservations, published, globalEmitter,
                 lastReturn>>

\* reserve: the emit of the connect event ev returned or threw r
ConnectEmitted(c, raw, connectionId, ev, r) ==
  /\ connectionIds' = MapSet(connectionIds, raw, connectionId)
  /\ published' = Append(published, Sent(ev, r))
  /\ inst' = r.st
  /\ reservations' = Append(reservations,
                       [raw |-> raw, cid |-> connectionId, by |-> c,
                        handed |-> ~r.thrown])
  /\ calls' = [calls EXCEPT
                 ![c].st = "settled", ![c].und = Resolved(raw),
                 ![c].out = IF r.thrown THEN Rejected(r.err) ELSE Resolved(raw)]

\* the driver's reserve resolves to raw: an identifier is generated and
\* recorded, connect is emitted, and the wrapped sub-handle is returned
\* (handed) unless emit threw
SettleReserve(c, raw, connectionId) ==
  /\ Pending(c)
  /\ calls[c].kind = "reserve"
  /\ ConnectEmitted(
       c, raw, connectionId,
       ConnectionEvent("connect", connectionId, c, Len(reservations) + 1),
       emit(inst, ConnectionEvent("connect", connectionId, c, Len(reservations) + 1)))
  /\ globalEmitter' = getDbEventEmitter(globalEmitter)
  /\ UNCHANGED <<now, listeners, closures, enableCalls, cfg, lastReturn>>

(***************************************************************************)
(* The whole program: every operation with every input.                    *)
(***************************************************************************)
Next ==
  \/ Tick
  \/ ClockStepBack
  \/ Enable
  \/ Disable
  \/ OnMeterInitialized
  \/ \E t \in Topics, th \in BOOLEAN : SubscribeOther(t, th)
  \/ \E p \in TopMethods \cup InvokeMethods, a \in FirstArgs \cup DetectArgs :
       CallMethod(p, a)
  \/ \E p \in TopMethods, a \in FirstArgs, ps \in ParamLists :
       CallMethodParams(p, a, ps)
  \/ \E a \in FirstArgs \cup DetectArgs : CallApply(a)
  \/ \E sql \in Statements : CallApply([type |-> "string", text |-> sql])
  \/ \E sql \in Statements : CallAnalyzeQuery(sql)
  \/ \E op \in Operations : CallGetQueryType(op)
  \/ CallReserve
  \/ \E k \in 1..Len(reservations), p \in SubMethods \cup InvokeMethods, a \in FirstArgs :
       SubCallMethod(k, p, a)
  \/ \E k \in 1..Len(reservations), a \in FirstArgs : SubCallApply(k, a)
  \/ \E k \in 1..Len(reservations) : CallRelease(k)
  \/ \E h \in 0..Len(reservations), prop \in Properties : ReadProperty(h, prop)
  \/ \E c \in 1..Len(calls), o \in QueryOutcomes : SettleQuery(c, o)
  \/ \E c \in 1..Len(calls), e \in FailureValues : SettleQuery(c, Rejected(e))
  \/ \E c \in 1..Len(calls), o \in QueryOutcomes : SettlePass(c, o)
  \/ \E c \in 1..Len(calls), e \in UnderlyingErrors : SettleReserveFail(c, e)
  \/ \E c \in 1..Len(calls), raw \in RawHandles, id \in ConnIds :
       SettleReserve(c, raw, id)

Spec == Init /\ [][Next]_vars

(***************************************************************************)
(* Workloads.  Each is a part of Next run from a state the program reaches *)
(* (Init, or InitDeployed: the state after registerDbQueryReceiver, which  *)
(* constructs the consumer and calls enable() once).                       *)
(***************************************************************************)
InitDeployed ==
  /\ now = 1
  /\ listeners = setupEventListeners([t \in Topics |-> <<>>], [listener |-> 0], 0)
  /\ closures = 2
  /\ enableCalls = 1
  /\ cfg \in Configs
  /\ inst = [listener |-> 1, metrics |-> FALSE, spans |-> <<>>,
             queryDurationHistogram |-> 0, queryCounter |-> 0,
             errorCounter |-> 0, connectionCounter |-> 0,
             connectionDurationHistogram |-> <<>>,
             connectionStartTimes |-> <<>>]
  /\ connectionIds = <<>>
  /\ reservations = <<>>
  /\ calls = <<>>
  /\ published = <<>>
  /\ globalEmitter = getDbEventEmitter([slot |-> 0, created |-> 0, returned |-> {}])
  /\ lastReturn = NoReturn

\* the configurations of the query workload: no parameters are collected,
\* the hooks are configured when one of them is the fault point, and
\* enableHistogram has its default
QueryConfigs ==
  {x \in Configs : /\ x.fault # "parameterSanitizer"
                   /\ x.hooks = (x.fault \in HookFaults)
                   /\ ~x.collectQueryParameters
                   /\ x.enableHistogram}

InitQuery == InitDeployed /\ cfg \in QueryConfigs

\* queries and other invocations on the wrapped client, with an enabled
\* consumer and possibly another subscriber on the query topic
NextQuery ==
  \/ Tick
  \/ \E th \in BOOLEAN : SubscribeOther(PG_EVENT_NAME, th)
  \/ \E p \in TopMethods, a \in FirstArgs :
       Len(calls) < MaxQueryCalls /\ CallMethod(p, a)
  \/ \E a \in FirstArgs : Len(calls) < MaxQueryCalls /\ CallApply(a)
  \/ \E c \in 1..Len(calls), o \in QueryOutcomes : SettleQuery(c, o)
  \/ \E c \in 1..Len(calls), o \in QueryOutcomes : SettlePass(c, o)

SpecQuery == InitQuery /\ [][NextQuery]_vars

\* the consumer of the reservation workload handles every event or has a
\* beforeSpan hook that throws
ReserveFaults == {"none", "beforeSpan"}

InitReserve == InitQuery /\ cfg.fault \in ReserveFaults

\* reservations: reserve, queries on the sub-handle, release, with an enabled
\* consumer and possibly a throwing subscriber on either topic
NextReserve ==
  \/ Tick
  \/ \E t \in Topics : SubscribeOther(t, TRUE)
  \/ CallReserve
  \/ \E k \in 1..Len(reservations) : SubCallMethod(k, "query", ArgSelect)
  \/ \E k \in 1..Len(reservations) : CallRelease(k)
  \/ \E c \in 1..Len(calls), o \in QueryOutcomes : SettleQuery(c, o)
  \/ \E c \in 1..Len(calls), o \in QueryOutcomes : SettlePass(c, o)
  \/ \E c \in 1..Len(calls), e \in UnderlyingErrors : SettleReserveFail(c, e)
  \/ \E c \in 1..Len(calls), raw \in RawHandles, id \in ConnIds :
       SettleReserve(c, raw, id)

SpecReserve == InitReserve /\ [][NextReserve]_vars

\* the consumer's life cycle: enable and disable around published events
NextEnable ==
  \/ Tick
  \/ Enable
  \/ Disable
  \/ Len(calls) < MaxQueryCalls /\ CallReserve
  \/ Len(calls) < MaxQueryCalls /\ CallApply(ArgSelect)
  \/ \E k \in 1..Len(reservations) : Len(calls) < MaxQueryCalls /\ CallRelease(k)
  \/ \E c \in 1..Len(calls), o \in QueryOutcomes : SettleQuery(c, o)
  \/ \E c \in 1..Len(calls), o \in QueryOutcomes : SettlePass(c, o)
  \/ \E c \in 1..Len(calls), raw \in RawHandles, id \in ConnIds :
       SettleReserve(c, raw, id)

InitEnable == Init /\ cfg \in QueryConfigs

SpecEnable == InitEnable /\ [][NextEnable]_vars

\* connections: reservations and releases around the consumer's life cycle,
\* with a query that makes the consumer create its instruments
InitConnection ==
  Init /\ cfg = [fault |-> "none", hooks |-> FALSE, collectQueryParameters |-> FALSE,
                 enableHistogram |-> TRUE]

NextConnection ==
  \/ Tick
  \/ Enable
  \/ Disable
  \/ CallReserve
  \/ CallApply(ArgSelect)
  \/ \E k \in 1..Len(reservations) : CallRelease(k)
  \/ \E c \in 1..Len(calls) : SettleQuery(c, Resolved("rows"))
  \/ \E c \in 1..Len(calls) : SettlePass(c, Resolved("undefined"))
  \/ \E c \in 1..Len(calls), raw \in RawHandles, id \in ConnIds :
       SettleReserve(c, raw, id)

SpecConnection == InitConnection /\ [][NextConnection]_vars

\* failures: queries whose underlying call rejects with any kind of value,
\* handled by an enabled consumer without hooks
InitFailure == InitQuery /\ cfg.fault = "none"

NextFailure ==
  \/ Tick
  \/ CallMethod("query", ArgSelect)
  \/ \E c \in 1..Len(calls), v \in UnderlyingResults : SettleQuery(c, Resolved(v))
  \/ \E c \in 1..Len(calls), e \in FailureValues : SettleQuery(c, Rejected(e))

SpecFailure == InitFailure /\ [][NextFailure]_vars

\* detection: statements with and without leading whitespace or comments,
\* called as methods of the wrapped client
InitDetect == InitQuery /\ cfg.fault = "none"

NextDetect ==
  \/ Tick
  \/ \E a \in DetectArgs : Len(calls) < MaxQueryCalls /\ CallMethod("query", a)
  \/ \E c \in 1..Len(calls) : SettleQuery(c, Resolved("rows"))
  \/ \E c \in 1..Len(calls) : SettlePass(c, Resolved("rows"))

SpecDetect == InitDetect /\ [][NextDetect]_vars

\* hooks and parameters: the three hooks are configured, parameters are
\* collected or not, with the default sanitizer or with a sanitizer that
\* throws
InitHooks ==
  /\ InitDeployed
  /\ cfg.hooks
  /\ cfg.enableHistogram
  /\ cfg.fault \in {"none", "parameterSanitizer"}

NextHooks ==
  \/ Tick
  \/ Len(calls) < MaxQueryCalls /\ CallMethod("query", ArgSelect)
  \/ \E ps \in ParamLists :
       Len(calls) < MaxQueryCalls /\ CallMethodParams("query", ArgSelect, ps)
  \/ \E c \in 1..Len(calls), o \in QueryOutcomes : SettleQuery(c, o)

SpecHooks == InitHooks /\ [][NextHooks]_vars

\* durations: queries on the wrapped client while the wall clock advances
\* and is set back
InitClock == InitQuery /\ cfg.fault = "none"

NextClock ==
  \/ Tick
  \/ ClockStepBack
  \/ Len(calls) < MaxQueryCalls /\ CallMethod("query", ArgSelect)
  \/ \E c \in 1..Len(calls), o \in QueryOutcomes : SettleQuery(c, o)

SpecClock == InitClock /\ [][NextClock]_vars

\* invocations: the same methods and arguments on the wrapped client and on
\* a wrapped sub-handle, and property reads on both
InitInvoke == InitQuery /\ cfg.fault = "none"

InvokeArgs == {ArgSelect, ArgNotSql, ArgNumber}

NextInvoke ==
  \/ CallReserve
  \/ \E p \in InvokeMethods, a \in InvokeArgs : CallMethod(p, a)
  \/ \E a \in InvokeArgs : CallApply(a)
  \/ \E k \in 1..Len(reservations), p \in InvokeMethods, a \in InvokeArgs :
       SubCallMethod(k, p, a)
  \/ \E k \in 1..Len(reservations), a \in InvokeArgs : SubCallApply(k, a)
  \/ \E h \in 0..Len(reservations), prop \in Properties : ReadProperty(h, prop)
  \/ \E c \in 1..Len(calls) : SettleQuery(c, Resolved("rows"))
  \/ \E c \in 1..Len(calls), o \in QueryOutcomes : SettlePass(c, o)
  \/ \E c \in 1..Len(calls) : SettleReserve(c, "r1", "k7")

SpecInvoke == InitInvoke /\ [][NextInvoke]_vars

\* metrics: queries and reservations handled by an enabled consumer without
\* hooks, with the duration histogram enabled or not
InitMetrics ==
  /\ InitDeployed
  /\ cfg.fault = "none" /\ ~cfg.hooks /\ ~cfg.collectQueryParameters

NextMetrics ==
  \/ Tick
  \/ OnMeterInitialized
  \/ CallMethod("query", ArgSelect)
  \/ CallReserve
  \/ \E k \in 1..Len(reservations) : CallRelease(k)
  \/ \E c \in 1..Len(calls), o \in QueryOutcomes : SettleQuery(c, o)
  \/ \E c \in 1..Len(calls) : SettlePass(c, Resolved("undefined"))
  \/ \E c \in 1..Len(calls), raw \in RawHandles, id \in ConnIds \ {""} :
       SettleReserve(c, raw, id)

SpecMetrics == InitMetrics /\ [][NextMetrics]_vars

\* analysis: analyzeQuery and getQueryType called directly
InitAnalyze == InitQuery /\ cfg.fault = "none"

NextAnalyze ==
  \/ \E sql \in Statements : CallAnalyzeQuery(sql)
  \/ \E op \in Operations : CallGetQueryType(op)

SpecAnalyze == InitAnalyze /\ [][NextAnalyze]_vars

(***************************************************************************)
(* Properties.                                                             *)
(***************************************************************************)
Done(c) == calls[c].st \in {"settled", "thrown"}
IsQueryEvent(e) == e.topic = PG_EVENT_NAME
IsConnect(e) == e.topic = PG_CONNECTION_EVENT_NAME /\ e.type = "connect"
IsDisconnect(e) == e.topic = PG_CONNECTION_EVENT_NAME /\ e.type = "disconnect"
\* the QueryEvents published for invocation c
EventsOf(c) == {i \in 1..Len(published) : IsQueryEvent(published[i]) /\ published[i].call = c}
SettledQuery(c) == calls[c].kind = "query" /\ calls[c].st = "settled"

\* C1: a detected query whose underlying call resolved has published exactly
\* one QueryEvent, carrying the resolved value and no error, and its caller
\* received that value, whatever the subscribers are.
C1_OneResultEvent ==
  \A c \in 1..Len(calls) :
    (SettledQuery(c) /\ calls[c].und.ok) =>
      /\ Cardinality(EventsOf(c)) = 1
      /\ \A i \in EventsOf(c) : /\ published[i].result = calls[c].und.val
                                /\ published[i].error = "undefined"
      /\ calls[c].out = Resolved(calls[c].und.val)

\* C2: a detected query whose underlying call failed has published exactly
\* one QueryEvent, carrying that failure as error, and its caller observes
\* that same failure.
C2_OneFailureEvent ==
  \A c \in 1..Len(calls) :
    (SettledQuery(c) /\ ~calls[c].und.ok) =>
      /\ Cardinality(EventsOf(c)) = 1
      /\ \A i \in EventsOf(c) : published[i].error = calls[c].und.val
      /\ calls[c].out = Rejected(calls[c].und.val)

\* C3: whatever a subscriber does while handling the QueryEvent, the caller
\* of a wrapped query observes the outcome of the underlying call.
C3_CallerSeesUnderlyingOutcome ==
  \A c \in 1..Len(calls) : SettledQuery(c) => calls[c].out = calls[c].und

\* C4: a QueryEvent is published only for an invocation whose first argument
\* is a statement-shaped string.
C4_OnlyStatementsPublish ==
  \A i \in 1..Len(published) :
    IsQueryEvent(published[i]) => LooksLikeSql(calls[published[i].call].arg)

\* a reserve, one query on the sub-handle it returned and a release of that
\* sub-handle, each awaited before the next, all completed
SequentialLifecycle ==
  /\ Len(calls) = 3
  /\ \A c \in 1..3 : Done(c) /\ ~calls[c].overlap
  /\ calls[1].kind = "reserve" /\ calls[1].out.ok
  /\ calls[2].h = 1 /\ calls[2].kind = "query"
  /\ calls[3].h = 1 /\ calls[3].via = "release"

\* C5: a sequential reserve, query, release has published exactly one
\* Connect, one QueryEvent and one Disconnect, in that order, the Connect and
\* the Disconnect carrying the same connectionId.
C5_SequentialLifecycleEvents ==
  SequentialLifecycle =>
    /\ Len(published) = 3
    /\ IsConnect(published[1])
    /\ IsQueryEvent(published[2])
    /\ IsDisconnect(published[3])
    /\ published[3].connectionId = published[1].connectionId

\* C6 (as claimed): for every reservation, Connect is published before every
\* QueryEvent of its sub-handle, and every QueryEvent of the sub-handle before
\* its Disconnect, under every interleaving.
C6_ConnectQueriesDisconnect ==
  \A i, j \in 1..Len(published) :
    LET e == published[i]
        f == published[j]
    IN /\ (IsConnect(e) /\ IsQueryEvent(f) /\ calls[f.call].h = e.res) => i < j
       /\ (IsQueryEvent(e) /\ IsDisconnect(f) /\ calls[e.call].h = f.res) => i < j

HasConnect(pub, k) == \E i \in 1..Len(pub) : IsConnect(pub[i]) /\ pub[i].res = k
HasQueryEvent(pub, c) == \E i \in 1..Len(pub) : IsQueryEvent(pub[i]) /\ pub[i].call = c

\* C6 (amended): whenever a QueryEvent of a sub-handle or its Disconnect is
\* published, the Connect of that reservation has been published before; and
\* whenever a Disconnect is published, every query on that sub-handle whose
\* underlying call has settled by then has its QueryEvent published before.
C6_ConnectFirstSettledBeforeDisconnect ==
  [][\A j \in (Len(published) + 1)..Len(published') :
       LET e == published'[j]
       IN /\ (IsQueryEvent(e) /\ calls'[e.call].h > 0) =>
               HasConnect(published, calls'[e.call].h)
          /\ IsDisconnect(e) =>
               /\ HasConnect(published, e.res)
               /\ \A c \in 1..Len(calls) :
                    (calls[c].h = e.res /\ SettledQuery(c)) =>
                      HasQueryEvent(published, c)]_vars

\* C6 witness: release was invoked while a query on the same sub-handle was
\* in flight, and that query's event was published after the Disconnect.
C6_Witness ==
  \E i, j \in 1..Len(published) :
    /\ IsDisconnect(published[i]) /\ IsQueryEvent(published[j])
    /\ calls[published[j].call].h = published[i].res
    /\ published[j].call < published[i].call
    /\ i < j

InstCount(t) ==
  Cardinality({i \in 1..Len(listeners[t]) : listeners[t][i].owner = "inst"})

\* C8: enable on an already enabled consumer leaves the number of its
\* subscriptions unchanged on both topics.
C8_ReEnableKeepsSubscriptions ==
  [][(inst.listener # 0 /\ enableCalls' = enableCalls + 1) =>
       \A t \in Topics : InstCount(t)' = InstCount(t)]_vars

\* C9: while the consumer is disabled no published event is handled by it:
\* its spans, counters, histograms and connection-start map do not change.
C9_NothingHandledWhileDisabled ==
  [][(inst.listener = 0 /\ inst'.listener = 0) => inst' = inst]_vars

\* C10: no two Connect events carry the same connectionId.
C10_UniqueConnectionIds ==
  \A i, j \in 1..Len(published) :
    (IsConnect(published[i]) /\ IsConnect(published[j]) /\ i # j) =>
      published[i].connectionId # published[j].connectionId

\* the QueryEvents published so far whose statement is a string: the events
\* for which the consumer reaches span creation
HandledQueryEvents ==
  {i \in 1..Len(published) :
     IsQueryEvent(published[i]) /\ published[i].sql.type = "string"}

\* C11: when every instrument update throws while metrics are recorded, each
\* QueryEvent handled still has its span started and ended with a status set,
\* and the consumer's listener does not throw: if the publish call threw, the
\* listener that threw was another subscriber.
C11_MetricsFaultKeepsSpan ==
  cfg.fault = "recordMetrics" =>
    /\ Len(inst.spans) = Cardinality(HandledQueryEvents)
    /\ \A n \in 1..Len(inst.spans) :
         inst.spans[n].ended /\ inst.spans[n].status \in {"OK", "ERROR"}
    /\ \A i \in HandledQueryEvents :
         published[i].threw =>
           listeners[PG_EVENT_NAME][published[i].got].owner = "other"

\* C11 witness: a QueryEvent was handled while the instruments failed: they
\* exist, none was updated, and the span is ended.
C11_Witness ==
  /\ cfg.fault = "recordMetrics"
  /\ inst.metrics /\ inst.queryCounter = 0
  /\ \E n \in 1..Len(inst.spans) : inst.spans[n].ended

\* C12: when a user hook or the parameter sanitizer throws while a QueryEvent
\* is handled, the span started for the event is still ended and the exception
\* does not reach the publisher: the consumer's listener never throws.
C12_HookFaultKeepsPipeline ==
  cfg.fault \in HookFaults \cup {"parameterSanitizer"} =>
    /\ \A n \in 1..Len(inst.spans) : inst.spans[n].ended
    /\ \A i \in HandledQueryEvents :
         published[i].threw =>
           listeners[PG_EVENT_NAME][published[i].got].owner = "other"

\* C13: every event published reaches every subscriber of its topic, also
\* those registered after a subscriber that throws, and the publish call does
\* not throw.
C13_EverySubscriberReceives ==
  \A i \in 1..Len(published) :
    published[i].got = published[i].subs /\ ~published[i].threw

\* the number of times a Connect event has been handled by a listener
RECURSIVE ConnectsHandled(_)
ConnectsHandled(n) ==
  IF n = 0 THEN 0
  ELSE ConnectsHandled(n - 1) +
         (IF IsConnect(published[n]) THEN published[n].got ELSE 0)

\* C14: the total added to the connection counter equals the number of
\* Connect events handled; Disconnect events add nothing.
C14_CounterCountsConnects ==
  inst.connectionCounter = ConnectsHandled(Len(published))

\* C15: when a Disconnect is handled whose connectionId has a recorded
\* Connect timestamp, the entry of that connectionId is removed from the
\* connection-start map, whether or not the instruments exist.
C15_DisconnectRemovesEntry ==
  [][\A j \in (Len(published) + 1)..Len(published') :
       LET e == published'[j]
       IN (/\ IsDisconnect(e) /\ e.got > 0
           /\ e.connectionId \in DOMAIN inst.connectionStartTimes) =>
            e.connectionId \notin DOMAIN inst'.connectionStartTimes]_vars

\* C16: handling a Disconnect whose connectionId has no recorded Connect
\* raises no error, records nothing in the connection-duration histogram and
\* leaves the connection-start map unchanged.
C16_UnmatchedDisconnectIgnored ==
  [][\A j \in (Len(published) + 1)..Len(published') :
       LET e == published'[j]
       IN (/\ IsDisconnect(e) /\ e.got > 0
           /\ e.connectionId \notin DOMAIN inst.connectionStartTimes) =>
            /\ ~e.threw
            /\ inst'.connectionDurationHistogram = inst.connectionDurationHistogram
            /\ inst'.connectionStartTimes = inst.connectionStartTimes]_vars

\* C16 witness: the consumer, with its instruments created by an earlier
\* query, handled the Disconnect of a reservation whose Connect was published
\* when no listener was subscribed.
C16_Witness ==
  \E i, q \in 1..Len(published) :
    /\ IsDisconnect(published[i]) /\ published[i].got > 0
    /\ q < i /\ IsQueryEvent(published[q]) /\ published[q].got > 0
    /\ \A j \in 1..(i - 1) :
         (IsConnect(published[j]) /\
          published[j].connectionId = published[i].connectionId) =>
           published[j].got = 0
    /\ inst.connectionDurationHistogram = <<>>

\* the detected queries whose underlying call has failed
FailedQueries == {c \in 1..Len(calls) : SettledQuery(c) /\ ~calls[c].und.ok}

\* C17: for every QueryEvent of a failed invocation, whatever the value the
\* underlying call failed with, the span has status error and an error-type
\* attribute, and the error counter has been incremented once per failure.
C17_FailureMarksSpanError ==
  /\ \A n \in 1..Len(inst.spans) :
       inst.spans[n].call \in FailedQueries =>
         inst.spans[n].status = "ERROR" /\ inst.spans[n].errorType # ""
  /\ inst.errorCounter = Cardinality(FailedQueries)

\* the text without its leading whitespace and leading line comments
RECURSIVE TrimLeading(_)
TrimLeading(s) ==
  IF s = <<>> THEN s
  ELSE IF s[1] \in {" ", "\n", "\t"} THEN TrimLeading(Tail(s))
  ELSE IF Len(s) >= 2 /\ s[1] = "-" /\ s[2] = "-"
    THEN IF \E i \in 1..Len(s) : s[i] = "\n"
           THEN TrimLeading(SubSeq(s, (CHOOSE i \in 1..Len(s) :
                                         /\ s[i] = "\n"
                                         /\ \A j \in 1..(i - 1) : s[j] # "\n") + 1,
                                   Len(s)))
           ELSE <<>>
  ELSE s

\* a string that starts with an operation keyword once it is trimmed
IsStatement(a) == a.type = "string" /\ sqlRegex(TrimLeading(a.text))

\* C18: a completed invocation whose first argument is a statement after
\* trimming leading whitespace and line comments has published a QueryEvent.
C18_TrimmedStatementsPublish ==
  \A c \in 1..Len(calls) :
    (Done(c) /\ IsStatement(calls[c].arg)) => EventsOf(c) # {}

\* what happens before what in the life of a span
Before(t, a, b) ==
  \A i \in 1..Len(t) : t[i] = b => \E j \in 1..(i - 1) : t[j] = a

\* C19: with the hooks configured, afterSpan is invoked after the span has
\* ended and beforeSpan before any status is set on the span.
C19_HooksAroundSpan ==
  cfg.hooks =>
    \A n \in 1..Len(inst.spans) :
      /\ Before(inst.spans[n].trace, "end", "afterSpan")
      /\ Before(inst.spans[n].trace, "beforeSpan", "setStatus")

\* /password|token|secret/i.test(param) for a string parameter
IsSensitive(param) ==
  /\ param.type = "string"
  /\ \E k \in 1..Len(SensitiveWords) : ContainsCI(param.text, SensitiveWords[k])

\* C20: with the default sanitizer, every string parameter that matches
\* password, token or secret is the redaction marker in the span attributes,
\* whatever its length.
C20_SensitiveParametersRedacted ==
  cfg.fault = "none" =>
    \A n \in 1..Len(inst.spans) :
      LET ps == calls[inst.spans[n].call].params
      IN \A k \in 1..Len(inst.spans[n].params) :
           IsSensitive(ps[k]) =>
             inst.spans[n].params[k] = <<"[","R","E","D","A","C","T","E","D","]">>

\* C21: a span has parameter attributes only when parameter collection is
\* enabled and the event of its invocation has at least one parameter; with
\* collection disabled no span ever has a parameter attribute.
C21_ParametersOnlyWhenCollected ==
  \A n \in 1..Len(inst.spans) :
    inst.spans[n].params # <<>> =>
      /\ cfg.collectQueryParameters
      /\ Len(calls[inst.spans[n].call].params) > 0

\* C21 witness: with collection disabled, the event of a query made with
\* parameters was handled and its span ended without parameter attributes.
C21_Witness ==
  /\ ~cfg.collectQueryParameters
  /\ \E n \in 1..Len(inst.spans) :
       /\ inst.spans[n].ended
       /\ Len(calls[inst.spans[n].call].params) > 0
       /\ inst.spans[n].params = <<>>

\* the operation names of a descriptor
OperationNames == {Keywords[k] : k \in 1..Len(Keywords)} \cup {UNKNOWN}

\* a complete query descriptor
IsDescriptor(d) ==
  /\ d.operation \in OperationNames
  /\ d.table \in Seq(WordChars)
  /\ {d.hasWhere, d.hasJoin, d.hasOrderBy, d.hasLimit} \subseteq BOOLEAN
  /\ d.parameterCount \in Nat
  /\ d.estimatedComplexity \in {"low", "medium", "high"}

\* C22: analyzeQuery returns a complete descriptor for every statement, the
\* same one whenever it is given the same statement; for the empty statement
\* the descriptor has operation UNKNOWN, no table, every flag false,
\* parameterCount 0 and complexity low.
C22_AnalyzeTotalDeterministic ==
  lastReturn.fn = "analyzeQuery" =>
    /\ IsDescriptor(lastReturn.val)
    /\ lastReturn.val = analyzeQuery(lastReturn.arg)
    /\ lastReturn.arg = <<>> =>
         lastReturn.val = [operation |-> UNKNOWN, table |-> <<>>,
                           hasWhere |-> FALSE, hasJoin |-> FALSE,
                           hasOrderBy |-> FALSE, hasLimit |-> FALSE,
                           parameterCount |-> 0, estimatedComplexity |-> "low"]

\* C22 witness: analyzeQuery has returned for the empty statement.
C22_Witness ==
  /\ lastReturn.fn = "analyzeQuery"
  /\ lastReturn.arg = <<>>
  /\ lastReturn.val.operation = UNKNOWN

\* the operation named by the first token of a statement: the leading run of
\* word characters of the cleaned, upper-cased statement when it is one of
\* the seven keywords, UNKNOWN otherwise
TokenOperation(sql) ==
  LET token == WordAt(ToUpperCase(Trim(CollapseWhitespace(
                        StripLineComments(sql, 1, FALSE), 1))), 1)
  IN IF token \in OperationNames THEN token ELSE UNKNOWN

\* C23: the operation of a descriptor is the one named by the first token of
\* the statement; a statement whose first token merely begins with a keyword
\* (SELECTED, DROPS) has operation UNKNOWN.
C23_OperationFromFirstToken ==
  lastReturn.fn = "analyzeQuery" =>
    lastReturn.val.operation = TokenOperation(lastReturn.arg)

\* C24: the complexity of a descriptor is high exactly when it has a join, an
\* order-by and a where; otherwise medium exactly when it has a join or an
\* order-by or more than five parameters; otherwise low.
C24_ComplexityRule ==
  lastReturn.fn = "analyzeQuery" =>
    LET d == lastReturn.val
        high == d.hasJoin /\ d.hasOrderBy /\ d.hasWhere
        medium == d.hasJoin \/ d.hasOrderBy \/ d.parameterCount > 5
    IN /\ (d.estimatedComplexity = "high") = high
       /\ (d.estimatedComplexity = "medium") = (~high /\ medium)
       /\ (d.estimatedComplexity = "low") = (~high /\ ~medium)

\* C24 witness: a statement with a join and an order-by but no where has been
\* analyzed, and its complexity is medium.
C24_Witness ==
  /\ lastReturn.fn = "analyzeQuery"
  /\ lastReturn.val.hasJoin
  /\ lastReturn.val.hasOrderBy
  /\ ~lastReturn.val.hasWhere
  /\ lastReturn.val.estimatedComplexity = "medium"

\* C28: getQueryType returns for every operation: read for SELECT, write for
\* INSERT, UPDATE and DELETE, schema for CREATE, ALTER and DROP, unknown for
\* every other operation, whatever the case the operation is written in.
C28_QueryTypeOfOperation ==
  lastReturn.fn = "getQueryType" =>
    LET op == ToUpperCase(lastReturn.arg)
    IN lastReturn.val =
         CASE op = <<"S","E","L","E","C","T">> -> "read"
           [] op \in {<<"I","N","S","E","R","T">>, <<"U","P","D","A","T","E">>,
                      <<"D","E","L","E","T","E">>} -> "write"
           [] op \in {<<"C","R","E","A","T","E">>, <<"A","L","T","E","R">>,
                      <<"D","R","O","P">>} -> "schema"
           [] OTHER -> "unknown"

\* C28 witness: an operation written in lower case has been classified as
\* write, and so has not fallen to unknown.
C28_Witness ==
  /\ lastReturn.fn = "getQueryType"
  /\ lastReturn.arg = <<"u","p","d","a","t","e">>
  /\ lastReturn.val = "write"

\* C25: every QueryEvent is published in the step in which the underlying
\* call of its invocation settles, so events appear in settlement order
\* whatever the issue order, and its duration is the time since the start of
\* its own invocation.
C25_PublishedInSettlementOrder ==
  [][\A i \in (Len(published) + 1)..Len(published') :
       IsQueryEvent(published'[i]) =>
         LET c == published'[i].call
         IN /\ Pending(c)
            /\ calls'[c].st = "settled"
            /\ published'[i].durationMs = now - calls[c].start]_vars

\* C25 witness: the second of two overlapping queries, issued later, settled
\* first: its event precedes the event of the first one and the two durations
\* differ.
C25_Witness ==
  \E i, j \in 1..Len(published) :
    /\ i < j
    /\ IsQueryEvent(published[i]) /\ published[i].call = 2
    /\ IsQueryEvent(published[j]) /\ published[j].call = 1
    /\ calls[2].overlap
    /\ calls[1].start < calls[2].start
    /\ published[i].durationMs < published[j].durationMs

\* C26: an invocation whose underlying call has not settled has published no
\* QueryEvent and has not returned to its caller.
C26_NothingBeforeSettlement ==
  \A c \in 1..Len(calls) :
    Pending(c) => EventsOf(c) = {} /\ calls[c].out = NONE

\* C26 witness: a query is still in flight, with no event and no return,
\* after the clock has advanced and a query issued later has settled and
\* published its event.
C26_Witness ==
  \E c, d \in 1..Len(calls) :
    /\ c < d
    /\ calls[c].kind = "query" /\ Pending(c)
    /\ now > calls[c].start
    /\ SettledQuery(d) /\ EventsOf(d) # {}
    /\ EventsOf(c) = {}

\* C27: no emitter exists before the first getDbEventEmitter call, the first
\* call creates one, and every call made by a producer or a consumer returns
\* that one emitter: at most one is ever created or returned.
C27_OneChannel ==
  /\ globalEmitter.created <= 1
  /\ globalEmitter.slot = globalEmitter.created
  /\ globalEmitter.returned = 1..globalEmitter.created

\* C27 witness: the consumer has subscribed and a wrapped handle has
\* published a QueryEvent that the consumer received, all on emitter 1.
C27_Witness ==
  /\ globalEmitter.returned = {1}
  /\ inst.listener # 0
  /\ \E i \in 1..Len(published) :
       IsQueryEvent(published[i]) /\ published[i].got >= 1

\* C29: every published QueryEvent has a duration of at least zero, whether
\* it carries a result or an error.
C29_DurationNonNegative ==
  \A i \in 1..Len(published) :
    IsQueryEvent(published[i]) => published[i].durationMs >= 0

\* the QueryEvents handed to the consumer's listener, in publication order
DeliveredQueryEvents ==
  SelectSeq(published,
            LAMBDA e : /\ IsQueryEvent(e)
                       /\ \E k \in 1..e.got :
                            listeners[PG_EVENT_NAME][k].owner = "inst")

\* C30: the spans are, one to one and in order, the QueryEvents delivered to
\* the consumer: each delivered event has exactly one span, named after the
\* operation analyzeQuery detects in its statement, and that span is ended.
C30_OneEndedSpanPerEvent ==
  /\ Len(inst.spans) = Len(DeliveredQueryEvents)
  /\ \A n \in 1..Len(inst.spans) :
       /\ inst.spans[n].call = DeliveredQueryEvents[n].call
       /\ inst.spans[n].ended
       /\ DeliveredQueryEvents[n].sql.type = "string" =>
            inst.spans[n].name = analyzeQuery(DeliveredQueryEvents[n].sql.text).operation

\* C31: with the consumer enabled, once the caller of a wrapped query has the
\* query's result or failure, the span of that query has been started and
\* ended.
C31_SpanEndedBeforeReturn ==
  \A c \in 1..Len(calls) :
    (SettledQuery(c) /\ calls[c].arg.type = "string" /\ calls[c].out # NONE) =>
      \E n \in 1..Len(inst.spans) :
        inst.spans[n].call = c /\ inst.spans[n].ended

\* the release invocations whose underlying release has failed
FailedReleases ==
  {c \in 1..Len(calls) :
     calls[c].via = "release" /\ calls[c].st = "settled" /\ ~calls[c].und.ok}

\* C32: when the underlying release of a release invocation has failed, the
\* caller has that same failure and a Disconnect with the connectionId of the
\* reservation was published by the invocation.
C32_FailedReleaseStillDisconnects ==
  \A c \in FailedReleases :
    /\ calls[c].out = calls[c].und
    /\ \E i \in 1..Len(published) :
         /\ IsDisconnect(published[i])
         /\ published[i].call = c
         /\ published[i].connectionId = reservations[calls[c].h].cid

\* the Disconnect events published for reservation k
DisconnectsOf(k) ==
  {i \in 1..Len(published) : IsDisconnect(published[i]) /\ published[i].res = k}

\* C33: at most one Disconnect is published for a reservation, however many
\* times release is called on its sub-handle.
C33_AtMostOneDisconnect ==
  \A k \in 1..Len(reservations) : Cardinality(DisconnectsOf(k)) <= 1

\* reservation k has been released: the driver's release has been invoked
\* for it
Released(k) ==
  \E c \in 1..Len(calls) :
    calls[c].h = k /\ calls[c].via = "release" /\ calls[c].st # "thrown"

\* the reservations that hold their handle: not released
Held == {k \in 1..Len(reservations) : ~Released(k)}

\* C34: the map has an entry for a handle exactly while a reservation holds
\* that handle, with that reservation's connectionId; it is empty once every
\* reservation has been released.  (Stated for the states in which every
\* reservation has a handle of its own.)
C34_MapTracksHeldHandles ==
  (\A j, k \in 1..Len(reservations) :
     reservations[j].raw = reservations[k].raw => j = k) =>
    /\ DOMAIN connectionIds = {reservations[k].raw : k \in Held}
    /\ \A k \in Held : connectionIds[reservations[k].raw] = reservations[k].cid

\* C35: in the step in which the driver's reserve fails, the caller gets that
\* same failure, nothing is published, and the map and the reservations are
\* unchanged.
C35_FailedReserveChangesNothing ==
  [][\A c \in 1..Len(calls) :
       (/\ calls[c].kind = "reserve"
        /\ Pending(c)
        /\ calls'[c].st = "settled"
        /\ ~calls'[c].und.ok) =>
         /\ calls'[c].out = calls'[c].und
         /\ published' = published
         /\ connectionIds' = connectionIds
         /\ reservations' = reservations]_vars

\* C35 witness: a reserve has failed and its caller has the driver's error,
\* while the map holds the entry of another reservation and no Connect was
\* published for the failed one.
C35_Witness ==
  \E c \in 1..Len(calls) :
    /\ calls[c].kind = "reserve"
    /\ calls[c].st = "settled"
    /\ calls[c].und = Rejected("ErrDb")
    /\ calls[c].out = Rejected("ErrDb")
    /\ DOMAIN connectionIds # {}
    /\ \A i \in 1..Len(published) : published[i].call # c

\* ---- C36 ----
\* a call of a method other than reserve and release that the wrapper did not
\* take for a query
NonQueryCall(cs, c) == cs[c].kind = "pass" /\ cs[c].via \notin {"release", "reserve"}

\* the step made call c or changed it
Touched(c) == c > Len(calls) \/ calls[c] # calls'[c]

SameInvocation(c, d) ==
  /\ calls[c].h = 0 /\ calls[d].h > 0
  /\ calls[c].via = calls[d].via /\ calls[c].arg = calls[d].arg
  /\ calls[c].via \notin {"reserve", "release"}
  /\ calls[c].st = "settled" /\ calls[d].st = "settled"

\* C37: the wrapped client and a wrapped sub-handle decide alike: for the same
\* way of invoking (the handle itself or a method by name) and the same first
\* argument, either both invocations published a QueryEvent or neither did.
C37_SameDecisionOnBothHandles ==
  \A c, d \in 1..Len(calls) :
    SameInvocation(c, d) => ((EventsOf(c) # {}) <=> (EventsOf(d) # {}))

\* the same, for invocations that are neither a call of the handle itself nor
\* of a method named constructor
C37_SameDecisionOnOtherMethods ==
  \A c, d \in 1..Len(calls) :
    (SameInvocation(c, d) /\ calls[c].via \notin {"apply", "constructor"}) =>
      ((EventsOf(c) # {}) <=> (EventsOf(d) # {}))

\* ---- C38 ----
\* the QueryEvents the consumer has handled: it starts one span for each
Handled == Len(inst.spans)

\* C38: the request counter's total is the number of handled QueryEvents
\* whether enableHistogram is set or not; the duration histogram has one
\* sample per handled event when it is set and none when it is not.
C38_CounterIndependentOfHistogram ==
  /\ inst.queryCounter = Handled
  /\ inst.queryDurationHistogram = (IF cfg.enableHistogram THEN Handled ELSE 0)

\* the same when the histogram is enabled
C38_CountersWithHistogram ==
  cfg.enableHistogram =>
    (inst.queryCounter = Handled /\ inst.queryDurationHistogram = Handled)

\* ---- C39 ----
\* the Connect events of reservation k that the consumer handled
HandledConnects(k) ==
  {i \in 1..Len(published) :
     IsConnect(published[i]) /\ published[i].res = k /\ published[i].got > 0}

\* this step publishes a Disconnect of reservation k that the consumer handles
HandledDisconnect(k) ==
  /\ Len(published') = Len(published) + 1
  /\ IsDisconnect(published'[Len(published')])
  /\ published'[Len(published')].res = k
  /\ published'[Len(published')].got > 0

\* the step adds exactly the sample of the pair made of Connect i and the
\* Disconnect it publishes
RecordsPair(i) ==
  inst'.connectionDurationHistogram =
    Append(inst.connectionDurationHistogram,
           Seconds(published'[Len(published')].timestamp - published[i].timestamp))

\* C39: when the consumer, with its instruments created, handles the
\* Disconnect of a reservation whose Connect it handled, it adds exactly one
\* sample to the connection-duration histogram, (Disconnect.timestamp -
\* Connect.timestamp) / 1000 of that reservation, whatever other reservations
\* are open.
C39_OneSamplePerPair ==
  [][\A k \in 1..Len(reservations) : \A i \in HandledConnects(k) :
       (HandledDisconnect(k) /\ inst.metrics) => RecordsPair(i)]_vars

\* no other reservation carries the connectionId of reservation k and
\* reservation k has not been released before
OwnIdFirstRelease(k) ==
  /\ \A j \in 1..Len(reservations) : j # k => reservations[j].cid # reservations[k].cid
  /\ DisconnectsOf(k) = {}

\* the same for the first release of a reservation whose connectionId no other
\* reservation carries
C39_OneSamplePerPairOwnId ==
  [][\A k \in 1..Len(reservations) : \A i \in HandledConnects(k) :
       (HandledDisconnect(k) /\ inst.metrics /\ OwnIdFirstRelease(k)) =>
         RecordsPair(i)]_vars

====
